---- MODULE Spec2Model ----
(***************************************************************************)
(* Model of the arXiv search MCP server: the tool handlers of              *)
(* src/server.py, the public-API client of src/arxiv_client.py, the        *)
(* semantic-search client of src/semantic_search_client.py and the paper   *)
(* record of src/models.py.                                                *)
(*                                                                         *)
(* Python strings are TLA+ strings.  An Optional[str] is a sequence of     *)
(* length 0 (None) or 1 (the string).  Every tool call is one action that  *)
(* records the call in op/args, the HTTP response it received in response  *)
(* and what it did in outcome/result/requests.  client_state holds the     *)
(* state of the httpx.AsyncClient of each of the two clients and           *)
(* close_calls the number of close() calls that each has received.         *)
(***************************************************************************)
EXTENDS Integers, Sequences, FiniteSets, TLC

VARIABLES pc, arxiv_client, semantic_search_client, client_state, close_calls,
          op, args, response, outcome, result, requests

vars == <<pc, arxiv_client, semantic_search_client, client_state, close_calls,
          op, args, response, outcome, result, requests>>

----------------------------------------------------------------------------
(* Python values *)

None == <<>>
Some(v) == <<v>>
\* truthiness of an Optional[str]: None and "" are falsy
Truthy(o) == o # None /\ o[1] # ""

----------------------------------------------------------------------------
(* str methods *)

Char(s, i) == SubSeq(s, i, i)

DIGITS == {"0", "1", "2", "3", "4", "5", "6", "7", "8", "9"}
WHITESPACE == {" ", "\n", "\t", "\r"}
UPPER == "ABCDEFGHIJKLMNOPQRSTUVWXYZ"
LOWER == "abcdefghijklmnopqrstuvwxyz"

IsDigit(c) == c \in DIGITS

\* s[i-1:].startswith(p), with i counted from 1
StartsWithAt(s, p, i) ==
    /\ i + Len(p) - 1 <= Len(s)
    /\ SubSeq(s, i, i + Len(p) - 1) = p

startswith(s, p) == StartsWithAt(s, p, 1)

LowerChar(c) ==
    IF \E k \in 1..Len(UPPER) : Char(UPPER, k) = c
    THEN Char(LOWER, CHOOSE k \in 1..Len(UPPER) : Char(UPPER, k) = c)
    ELSE c

RECURSIVE lower(_)
lower(s) == IF s = "" THEN "" ELSE LowerChar(Char(s, 1)) \o lower(SubSeq(s, 2, Len(s)))

\* index of the first occurrence of sub in s at or after i, 0 if there is none
RECURSIVE FindFrom(_, _, _)
FindFrom(s, sub, i) ==
    IF i + Len(sub) - 1 > Len(s) THEN 0
    ELSE IF StartsWithAt(s, sub, i) THEN i
    ELSE FindFrom(s, sub, i + 1)

Contains(s, sub) == FindFrom(s, sub, 1) # 0

\* s.replace(old, new), old non-empty
RECURSIVE replace(_, _, _)
replace(s, old, new) ==
    LET k == FindFrom(s, old, 1) IN
    IF k = 0 THEN s
    ELSE SubSeq(s, 1, k - 1) \o new \o replace(SubSeq(s, k + Len(old), Len(s)), old, new)

\* s.split(sep)[0]
SplitFirst(s, sep) ==
    LET k == FindFrom(s, sep, 1) IN
    IF k = 0 THEN s ELSE SubSeq(s, 1, k - 1)

\* s.split(sep)[-1]
RECURSIVE SplitLast(_, _)
SplitLast(s, sep) ==
    LET k == FindFrom(s, sep, 1) IN
    IF k = 0 THEN s ELSE SplitLast(SubSeq(s, k + Len(sep), Len(s)), sep)

RECURSIVE lstrip(_)
lstrip(s) ==
    IF s # "" /\ Char(s, 1) \in WHITESPACE THEN lstrip(SubSeq(s, 2, Len(s))) ELSE s

RECURSIVE rstrip(_)
rstrip(s) ==
    IF s # "" /\ Char(s, Len(s)) \in WHITESPACE THEN rstrip(SubSeq(s, 1, Len(s) - 1)) ELSE s

strip(s) == rstrip(lstrip(s))

\* sep.join(parts)
RECURSIVE join(_, _)
join(sep, parts) ==
    IF parts = <<>> THEN ""
    ELSE IF Len(parts) = 1 THEN parts[1]
    ELSE parts[1] \o sep \o join(sep, Tail(parts))

----------------------------------------------------------------------------
(* arxiv_client.py: the category taxonomy *)

ARXIV_CATEGORIES == {
    <<"cs.AI", "Artificial Intelligence">>,
    <<"cs.AR", "Hardware Architecture">>,
    <<"cs.CC", "Computational Complexity">>,
    <<"cs.CE", "Computational Engineering, Finance, and Science">>,
    <<"cs.CG", "Computational Geometry">>,
    <<"cs.CL", "Computation and Language">>,
    <<"cs.CR", "Cryptography and Security">>,
    <<"cs.CV", "Computer Vision and Pattern Recognition">>,
    <<"cs.CY", "Computers and Society">>,
    <<"cs.DB", "Databases">>,
    <<"cs.DC", "Distributed, Parallel, and Cluster Computing">>,
    <<"cs.DL", "Digital Libraries">>,
    <<"cs.DM", "Discrete Mathematics">>,
    <<"cs.DS", "Data Structures and Algorithms">>,
    <<"cs.ET", "Emerging Technologies">>,
    <<"cs.FL", "Formal Languages and Automata Theory">>,
    <<"cs.GL", "General Literature">>,
    <<"cs.GR", "Graphics">>,
    <<"cs.GT", "Computer Science and Game Theory">>,
    <<"cs.HC", "Human-Computer Interaction">>,
    <<"cs.IR", "Information Retrieval">>,
    <<"cs.IT", "Information Theory">>,
    <<"cs.LG", "Machine Learning">>,
    <<"cs.LO", "Logic in Computer Science">>,
    <<"cs.MA", "Multiagent Systems">>,
    <<"cs.MM", "Multimedia">>,
    <<"cs.MS", "Mathematical Software">>,
    <<"cs.NA", "Numerical Analysis">>,
    <<"cs.NE", "Neural and Evolutionary Computing">>,
    <<"cs.NI", "Networking and Internet Architecture">>,
    <<"cs.OH", "Other Computer Science">>,
    <<"cs.OS", "Operating Systems">>,
    <<"cs.PF", "Performance">>,
    <<"cs.PL", "Programming Languages">>,
    <<"cs.RO", "Robotics">>,
    <<"cs.SC", "Symbolic Computation">>,
    <<"cs.SD", "Sound">>,
    <<"cs.SE", "Software Engineering">>,
    <<"cs.SI", "Social and Information Networks">>,
    <<"cs.SY", "Systems and Control">>,
    <<"econ.EM", "Econometrics">>,
    <<"eess.AS", "Audio and Speech Processing">>,
    <<"eess.IV", "Image and Video Processing">>,
    <<"eess.SP", "Signal Processing">>,
    <<"math.AC", "Commutative Algebra">>,
    <<"math.AG", "Algebraic Geometry">>,
    <<"math.AP", "Analysis of PDEs">>,
    <<"math.AT", "Algebraic Topology">>,
    <<"math.CA", "Classical Analysis and ODEs">>,
    <<"math.CO", "Combinatorics">>,
    <<"math.CT", "Category Theory">>,
    <<"math.CV", "Complex Variables">>,
    <<"math.DG", "Differential Geometry">>,
    <<"math.DS", "Dynamical Systems">>,
    <<"math.FA", "Functional Analysis">>,
    <<"math.GM", "General Mathematics">>,
    <<"math.GN", "General Topology">>,
    <<"math.GR", "Group Theory">>,
    <<"math.GT", "Geometric Topology">>,
    <<"math.HO", "History and Overview">>,
    <<"math.IT", "Information Theory">>,
    <<"math.KT", "K-Theory and Homology">>,
    <<"math.LO", "Logic">>,
    <<"math.MG", "Metric Geometry">>,
    <<"math.MP", "Mathematical Physics">>,
    <<"math.NA", "Numerical Analysis">>,
    <<"math.NT", "Number Theory">>,
    <<"math.OA", "Operator Algebras">>,
    <<"math.OC", "Optimization and Control">>,
    <<"math.PR", "Probability">>,
    <<"math.QA", "Quantum Algebra">>,
    <<"math.RA", "Rings and Algebras">>,
    <<"math.RT", "Representation Theory">>,
    <<"math.SG", "Symplectic Geometry">>,
    <<"math.SP", "Spectral Theory">>,
    <<"math.ST", "Statistics Theory">>,
    <<"astro-ph.CO", "Cosmology and Nongalactic Astrophysics">>,
    <<"astro-ph.EP", "Earth and Planetary Astrophysics">>,
    <<"astro-ph.GA", "Astrophysics of Galaxies">>,
    <<"astro-ph.HE", "High Energy Astrophysical Phenomena">>,
    <<"astro-ph.IM", "Instrumentation and Methods for Astrophysics">>,
    <<"astro-ph.SR", "Solar and Stellar Astrophysics">>,
    <<"cond-mat.dis-nn", "Disordered Systems and Neural Networks">>,
    <<"cond-mat.mes-hall", "Mesoscale and Nanoscale Physics">>,
    <<"cond-mat.mtrl-sci", "Materials Science">>,
    <<"cond-mat.other", "Other Condensed Matter">>,
    <<"cond-mat.quant-gas", "Quantum Gases">>,
    <<"cond-mat.soft", "Soft Condensed Matter">>,
    <<"cond-mat.stat-mech", "Statistical Mechanics">>,
    <<"cond-mat.str-el", "Strongly Correlated Electrons">>,
    <<"cond-mat.supr-con", "Superconductivity">>,
    <<"gr-qc", "General Relativity and Quantum Cosmology">>,
    <<"hep-ex", "High Energy Physics - Experiment">>,
    <<"hep-lat", "High Energy Physics - Lattice">>,
    <<"hep-ph", "High Energy Physics - Phenomenology">>,
    <<"hep-th", "High Energy Physics - Theory">>,
    <<"math-ph", "Mathematical Physics">>,
    <<"nlin.AO", "Adaptation and Self-Organizing Systems">>,
    <<"nlin.CD", "Chaotic Dynamics">>,
    <<"nlin.CG", "Cellular Automata and Lattice Gases">>,
    <<"nlin.PS", "Pattern Formation and Solitons">>,
    <<"nlin.SI", "Exactly Solvable and Integrable Systems">>,
    <<"nucl-ex", "Nuclear Experiment">>,
    <<"nucl-th", "Nuclear Theory">>,
    <<"physics.acc-ph", "Accelerator Physics">>,
    <<"physics.ao-ph", "Atmospheric and Oceanic Physics">>,
    <<"physics.app-ph", "Applied Physics">>,
    <<"physics.atm-clus", "Atomic and Molecular Clusters">>,
    <<"physics.atom-ph", "Atomic Physics">>,
    <<"physics.bio-ph", "Biological Physics">>,
    <<"physics.chem-ph", "Chemical Physics">>,
    <<"physics.class-ph", "Classical Physics">>,
    <<"physics.comp-ph", "Computational Physics">>,
    <<"physics.data-an", "Data Analysis, Statistics and Probability">>,
    <<"physics.ed-ph", "Physics Education">>,
    <<"physics.flu-dyn", "Fluid Dynamics">>,
    <<"physics.gen-ph", "General Physics">>,
    <<"physics.geo-ph", "Geophysics">>,
    <<"physics.hist-ph", "History and Philosophy of Physics">>,
    <<"physics.ins-det", "Instrumentation and Detectors">>,
    <<"physics.med-ph", "Medical Physics">>,
    <<"physics.optics", "Optics">>,
    <<"physics.plasm-ph", "Plasma Physics">>,
    <<"physics.pop-ph", "Popular Physics">>,
    <<"physics.soc-ph", "Physics and Society">>,
    <<"physics.space-ph", "Space Physics">>,
    <<"q-bio.BM", "Biomolecules">>,
    <<"q-bio.CB", "Cell Behavior">>,
    <<"q-bio.GN", "Genomics">>,
    <<"q-bio.MN", "Molecular Networks">>,
    <<"q-bio.NC", "Neurons and Cognition">>,
    <<"q-bio.OT", "Other Quantitative Biology">>,
    <<"q-bio.PE", "Populations and Evolution">>,
    <<"q-bio.QM", "Quantitative Methods">>,
    <<"q-bio.SC", "Subcellular Processes">>,
    <<"q-bio.TO", "Tissues and Organs">>,
    <<"q-fin.CP", "Computational Finance">>,
    <<"q-fin.EC", "Economics">>,
    <<"q-fin.GN", "General Finance">>,
    <<"q-fin.MF", "Mathematical Finance">>,
    <<"q-fin.PM", "Portfolio Management">>,
    <<"q-fin.PR", "Pricing of Securities">>,
    <<"q-fin.RM", "Risk Management">>,
    <<"q-fin.ST", "Statistical Finance">>,
    <<"q-fin.TR", "Trading and Market Microstructure">>,
    <<"quant-ph", "Quantum Physics">>,
    <<"stat.AP", "Applications">>,
    <<"stat.CO", "Computation">>,
    <<"stat.ME", "Methodology">>,
    <<"stat.ML", "Machine Learning">>,
    <<"stat.OT", "Other Statistics">>,
    <<"stat.TH", "Statistics Theory">>
}

Codes == {e[1] : e \in ARXIV_CATEGORIES}

\* {code.split('.')[0] for code in ARXIV_CATEGORIES}
ARXIV_MAJOR_CATEGORIES == {SplitFirst(c, ".") : c \in Codes}

\* ArxivClient.get_categories; the result is the mapping as a set of
\* <<code, description>> pairs
get_categories(major_category) ==
    IF Truthy(major_category)
    THEN LET mc == lower(major_category[1]) IN
         IF mc \notin ARXIV_MAJOR_CATEGORIES
         THEN {}
         ELSE {e \in ARXIV_CATEGORIES : startswith(lower(e[1]), mc)}
    ELSE ARXIV_CATEGORIES

----------------------------------------------------------------------------
(* arxiv_client.py: the identifier normalizer *)

\* end (exclusive) of the run [0-9]* that starts at i
RECURSIVE DigitRunEnd(_, _)
DigitRunEnd(s, i) ==
    IF i <= Len(s) /\ IsDigit(Char(s, i)) THEN DigitRunEnd(s, i + 1) ELSE i

\* end (exclusive) of the match of [0-9]+\.[0-9]+(?:v[0-9]+)? at i, 0 if none
IdMatchEnd(s, i) ==
    LET a == DigitRunEnd(s, i) IN
    IF a = i \/ a > Len(s) \/ Char(s, a) # "." THEN 0
    ELSE LET b == DigitRunEnd(s, a + 1) IN
         IF b = a + 1 THEN 0
         ELSE IF b <= Len(s) /\ Char(s, b) = "v" /\ DigitRunEnd(s, b + 1) > b + 1
              THEN DigitRunEnd(s, b + 1)
              ELSE b

\* the pattern arxiv\.org/(?:abs|pdf)/(...) matches at i
UrlMatchAt(s, i) ==
    /\ StartsWithAt(s, "arxiv.org/abs/", i) \/ StartsWithAt(s, "arxiv.org/pdf/", i)
    /\ IdMatchEnd(s, i + 14) # 0

\* re.search(url_pattern, s): group 1 of the leftmost match, None if no match
UrlSearch(s) ==
    IF \E i \in 1..Len(s) : UrlMatchAt(s, i)
    THEN LET i == CHOOSE k \in 1..Len(s) :
                      UrlMatchAt(s, k) /\ \A j \in 1..(k - 1) : ~UrlMatchAt(s, j)
         IN Some(SubSeq(s, i + 14, IdMatchEnd(s, i + 14) - 1))
    ELSE None

\* re.match(r'^[0-9]+\.[0-9]+v[0-9]+$', s); in Python "$" matches at the end
\* of the string and also just before a newline that ends the string
VersionedMatch(s) ==
    LET a == DigitRunEnd(s, 1)
        b == DigitRunEnd(s, a + 1)
        c == DigitRunEnd(s, b + 1)
    IN /\ a > 1 /\ a <= Len(s) /\ Char(s, a) = "."
       /\ b > a + 1 /\ b <= Len(s) /\ Char(s, b) = "v"
       /\ c > b + 1
       /\ \/ c = Len(s) + 1
          \/ c = Len(s) /\ Char(s, c) = "\n"

\* normalize_arxiv_id without the removal of the version suffix
normalize_arxiv_id_KeepVersion(arxiv_id) ==
    LET m == IF startswith(arxiv_id, "http://") \/ startswith(arxiv_id, "https://")
             THEN UrlSearch(arxiv_id)
             ELSE None
    IN IF m # None THEN replace(m[1], ".pdf", "") ELSE arxiv_id

\* ArxivClient.normalize_arxiv_id
normalize_arxiv_id(arxiv_id) ==
    LET m == IF startswith(arxiv_id, "http://") \/ startswith(arxiv_id, "https://")
             THEN UrlSearch(arxiv_id)
             ELSE None
        id1 == IF m # None THEN replace(m[1], ".pdf", "") ELSE arxiv_id
    IN IF Contains(id1, "v") /\ VersionedMatch(id1)
       THEN SplitFirst(id1, "v")
       ELSE id1

----------------------------------------------------------------------------
(* decimal formatting *)

DigitStr(d) == Char("0123456789", d + 1)

\* str(n) for n >= 0
RECURSIVE IntToStr(_)
IntToStr(n) == IF n < 10 THEN DigitStr(n) ELSE IntToStr(n \div 10) \o DigitStr(n % 10)

\* int(s) for a string of decimal digits
RECURSIVE StrToInt(_)
StrToInt(s) ==
    IF s = "" THEN 0
    ELSE 10 * StrToInt(SubSeq(s, 1, Len(s) - 1))
         + (CHOOSE d \in 0..9 : DigitStr(d) = Char(s, Len(s)))

Pad2(n) == IF n < 10 THEN "0" \o DigitStr(n) ELSE IntToStr(n)

Pad4(n) ==
    IF n < 10 THEN "000" \o DigitStr(n)
    ELSE IF n < 100 THEN "00" \o IntToStr(n)
    ELSE IF n < 1000 THEN "0" \o IntToStr(n)
    ELSE IntToStr(n)

AllDigits(s) == \A i \in 1..Len(s) : IsDigit(Char(s, i))

\* int(s) succeeds: surrounding whitespace, an optional sign, decimal digits
IsIntLiteral(s) ==
    LET t == strip(s)
        u == IF t # "" /\ Char(t, 1) \in {"+", "-"} THEN SubSeq(t, 2, Len(t)) ELSE t
    IN u # "" /\ AllDigits(u)

----------------------------------------------------------------------------
(* datetime *)

IsLeap(y) == (y % 4 = 0 /\ y % 100 # 0) \/ y % 400 = 0

DaysInMonth(y, m) ==
    IF m = 2 THEN (IF IsLeap(y) THEN 29 ELSE 28)
    ELSE IF m \in {4, 6, 9, 11} THEN 30
    ELSE 31

TwoDigit(lo, hi) == {Pad2(n) : n \in lo..hi}
OneDigit(lo, hi) == {DigitStr(n) : n \in lo..hi}

\* length (2, 1, or 0 for no match) of the directive's match at p that is
\* followed by the literal sep; literals are matched ignoring case
FieldLen(s, p, two, one, sep) ==
    IF p + 2 <= Len(s) /\ SubSeq(s, p, p + 1) \in two /\ LowerChar(Char(s, p + 2)) = sep
    THEN 2
    ELSE IF p + 1 <= Len(s) /\ Char(s, p) \in one /\ LowerChar(Char(s, p + 1)) = sep
    THEN 1
    ELSE 0

\* datetime.strptime(date_str, "%Y-%m-%dT%H:%M:%SZ"): the date, or ok = FALSE
\* for the ValueError
strptime(s) ==
    LET bad == [ok |-> FALSE, y |-> 0, m |-> 0, d |-> 0]
        lm == FieldLen(s, 6, TwoDigit(1, 12), OneDigit(1, 9), "-")
        pd == 6 + lm + 1
        ld == FieldLen(s, pd, TwoDigit(1, 31) \cup {" " \o c : c \in OneDigit(1, 9)},
                       OneDigit(1, 9), "t")
        ph == pd + ld + 1
        lh == FieldLen(s, ph, TwoDigit(0, 23), OneDigit(0, 9), ":")
        pm == ph + lh + 1
        lmi == FieldLen(s, pm, TwoDigit(0, 59), OneDigit(0, 9), ":")
        ps == pm + lmi + 1
        ls == FieldLen(s, ps, TwoDigit(0, 61), OneDigit(0, 9), "z")
    IN IF ~(Len(s) >= 5 /\ AllDigits(SubSeq(s, 1, 4)) /\ Char(s, 5) = "-") THEN bad
       ELSE IF lm = 0 \/ ld = 0 \/ lh = 0 \/ lmi = 0 \/ ls = 0 THEN bad
       ELSE IF ps + ls # Len(s) THEN bad              \* unconverted data remains
       ELSE LET y == StrToInt(SubSeq(s, 1, 4))
                m == StrToInt(SubSeq(s, 6, 6 + lm - 1))
                d == StrToInt(lstrip(SubSeq(s, pd, pd + ld - 1)))
                sec == StrToInt(SubSeq(s, ps, ps + ls - 1))
            IN IF y = 0 \/ sec > 59 \/ d > DaysInMonth(y, m) THEN bad
               ELSE [ok |-> TRUE, y |-> y, m |-> m, d |-> d]

\* dt.strftime("%Y-%m-%d"); the C library decides whether %Y pads a year
\* below 1000 with zeros (pad_year)
strftime(dt, pad_year) ==
    (IF pad_year THEN Pad4(dt.y) ELSE IntToStr(dt.y))
        \o "-" \o Pad2(dt.m) \o "-" \o Pad2(dt.d)

\* ArxivClient._parse_datetime: the date string, or ok = FALSE for the
\* ValueError of strptime
Formatted(dt, pad_year) ==
    IF dt.ok THEN [ok |-> TRUE, v |-> strftime(dt, pad_year)]
    ELSE [ok |-> FALSE, v |-> ""]

_parse_datetime(date_str, pad_year) == Formatted(strptime(date_str), pad_year)

\* the civil date of the day that is z days after 1970-01-01
CivilFromDays(z0) ==
    LET z == z0 + 719468
        era == z \div 146097
        doe == z - era * 146097
        yoe == (doe - doe \div 1460 + doe \div 36524 - doe \div 146096) \div 365
        doy == doe - (365 * yoe + yoe \div 4 - yoe \div 100)
        mp == (5 * doy + 2) \div 153
        d == doy - (153 * mp + 2) \div 5 + 1
        m == IF mp < 10 THEN mp + 3 ELSE mp - 9
        y == yoe + era * 400 + (IF m <= 2 THEN 1 ELSE 0)
    IN [ok |-> TRUE, y |-> y, m |-> m, d |-> d]

\* datetime.fromtimestamp(timestamp) in the server's time zone, whose offset
\* from UTC is utc_offset seconds
fromtimestamp(timestamp, utc_offset) == CivilFromDays((timestamp + utc_offset) \div 86400)

----------------------------------------------------------------------------
(* models.py: the paper record *)

RequiredFields == {"arxiv_id", "title", "authors", "abstract", "categories", "published_date"}

\* the keyword arguments of ArxivPaper(...): every field is None (absent) or
\* Some(value)
PaperKwargs(id, title, authors, abstract, categories, published, comment, pdf_url) ==
    [arxiv_id |-> id, title |-> title, authors |-> authors, abstract |-> abstract,
     categories |-> categories, published_date |-> published, comment |-> comment,
     pdf_url |-> pdf_url]

\* ArxivPaper._populate_pdf_url
_populate_pdf_url(v, values) ==
    IF Truthy(v) THEN v
    ELSE IF Truthy(values.arxiv_id) THEN Some("https://arxiv.org/pdf/" \o values.arxiv_id[1])
    ELSE None

\* ArxivPaper(**kw) raises pydantic's ValidationError: a required field is
\* missing
ValidationFails(kw) == \E f \in RequiredFields : kw[f] = None

\* the record ArxivPaper(**kw) constructs when it does not raise
ArxivPaper(kw) ==
    [arxiv_id |-> kw.arxiv_id[1],
     title |-> kw.title[1],
     authors |-> kw.authors[1],
     abstract |-> kw.abstract[1],
     categories |-> kw.categories[1],
     published_date |-> kw.published_date[1],
     comment |-> kw.comment,
     pdf_url |-> _populate_pdf_url(kw.pdf_url, kw)]

----------------------------------------------------------------------------
(* arxiv_client.py: the response parser *)

\* An <entry> element: the text of its id, title, summary and published
\* children (None: no such child, or a child without text), the text of the
\* name of each author child, the term attribute of each category child
\* (None: no such attribute) and the text of its arxiv:comment child.
Entry(id, title, summary, published, authors, categories, comment) ==
    [id |-> id, title |-> title, summary |-> summary, published |-> published,
     authors |-> authors, categories |-> categories, comment |-> comment]

\* The response text: well_formed is whether ET.fromstring accepts it,
\* totalResults the text of the opensearch:totalResults element (None: no
\* such element, or one without text), entries the <entry> elements in
\* document order.
Doc(well_formed, totalResults, entries) ==
    [well_formed |-> well_formed, totalResults |-> totalResults, entries |-> entries]

\* [o[1] for o in seq], seq a sequence of Some(...)
RECURSIVE Unwrap(_)
Unwrap(seq) == IF seq = <<>> THEN <<>> ELSE <<seq[1][1]>> \o Unwrap(Tail(seq))

IsSome(o) == o # None

\* the return statement of _parse_entry: the ValueError of _parse_datetime
\* (kind "raise"), else the record (kind "paper")
EntryPaper(entry, authors, category_terms, published_date) ==
    IF ~published_date.ok
    THEN [kind |-> "raise"]
    ELSE [kind |-> "paper",
          paper |-> ArxivPaper(PaperKwargs(
              Some(SplitFirst(SplitLast(entry.id[1], "/"), "v")),
              Some(strip(entry.title[1])),
              Some(authors),
              Some(strip(entry.summary[1])),
              Some(category_terms),
              Some(published_date.v),
              entry.comment,
              None))]

\* ArxivClient._parse_entry: kind "None" (entry skipped), "raise" or "paper"
_parse_entry(entry, pad_year) ==
    IF ~(Truthy(entry.id) /\ Truthy(entry.title) /\ Truthy(entry.summary)
         /\ Truthy(entry.published))
    THEN [kind |-> "None"]
    ELSE IF Unwrap(SelectSeq(entry.authors, Truthy)) = <<>> THEN [kind |-> "None"]
    ELSE IF Unwrap(SelectSeq(entry.categories, IsSome)) = <<>> THEN [kind |-> "None"]
    ELSE EntryPaper(entry,
                    Unwrap(SelectSeq(entry.authors, Truthy)),
                    Unwrap(SelectSeq(entry.categories, IsSome)),
                    _parse_datetime(entry.published[1], pad_year))

\* the body of the loop of _parse_response: an entry that is skipped or that
\* raises is left out
Appended(r) == IF r.kind = "paper" THEN <<r.paper>> ELSE <<>>

\* the loop of _parse_response over the entries, in document order
RECURSIVE ParseEntries(_, _)
ParseEntries(entries, pad_year) ==
    IF entries = <<>> THEN <<>>
    ELSE Appended(_parse_entry(Head(entries), pad_year))
             \o ParseEntries(Tail(entries), pad_year)

\* the return value (exc = "ok") or the exception raised, and the requests
\* issued on the way
Outcome(exc, value, reqs) == [exc |-> exc, value |-> value, requests |-> reqs]

\* ArxivClient._parse_response without the try/except around _parse_entry:
\* the ValueError of an entry propagates
_parse_response_Propagating(doc, pad_year) ==
    IF ~doc.well_formed THEN Outcome("ParseError", <<>>, <<>>)
    ELSE IF doc.totalResults = None THEN Outcome("TypeError", <<>>, <<>>)
    ELSE IF ~IsIntLiteral(doc.totalResults[1]) THEN Outcome("ValueError", <<>>, <<>>)
    ELSE IF \E i \in 1..Len(doc.entries) :
                _parse_entry(doc.entries[i], pad_year).kind = "raise"
    THEN Outcome("ValueError", <<>>, <<>>)
    ELSE Outcome("ok", ParseEntries(doc.entries, pad_year), <<>>)

\* ArxivClient._parse_response
_parse_response(doc, pad_year) ==
    IF ~doc.well_formed THEN Outcome("ParseError", <<>>, <<>>)
    ELSE IF doc.totalResults = None THEN Outcome("TypeError", <<>>, <<>>)
    ELSE IF ~IsIntLiteral(doc.totalResults[1]) THEN Outcome("ValueError", <<>>, <<>>)
    ELSE Outcome("ok", ParseEntries(doc.entries, pad_year), <<>>)

----------------------------------------------------------------------------
(* arxiv_client.py and server.py: keyword search and single-paper lookup *)

MAX_PAGE_SIZE == 15

\* What the transport does with a request: "transport_error" (no response),
\* "status_error" (raise_for_status raises), or "ok" with the body.
HttpError(kind) == [kind |-> kind, body |-> <<>>]
HttpOk(body) == [kind |-> "ok", body |-> body]

\* what came of the parse r, after the requests reqs
After(reqs, r) == [r EXCEPT !.requests = reqs]

\* ArxivClient.search without the check of start
ArxivClient_search_NoStartCheck(query, max_results, start, sort_by, sort_order, resp, pad_year) ==
    IF max_results > MAX_PAGE_SIZE \/ max_results < 1 THEN Outcome("ValueError", <<>>, <<>>)
    ELSE LET params == [search_query |-> query, start |-> start,
                        max_results |-> max_results, sortBy |-> sort_by,
                        sortOrder |-> sort_order]
             reqs == <<[method |-> "GET", params |-> params]>>
         IN IF resp.kind # "ok" THEN Outcome("HTTPError", <<>>, reqs)
            ELSE After(reqs, _parse_response(resp.body, pad_year))

\* ArxivClient.search
ArxivClient_search(query, max_results, start, sort_by, sort_order, resp, pad_year) ==
    IF max_results > MAX_PAGE_SIZE \/ max_results < 1 THEN Outcome("ValueError", <<>>, <<>>)
    ELSE IF start < 0 THEN Outcome("ValueError", <<>>, <<>>)
    ELSE LET params == [search_query |-> query, start |-> start,
                        max_results |-> max_results, sortBy |-> sort_by,
                        sortOrder |-> sort_order]
             reqs == <<[method |-> "GET", params |-> params]>>
         IN IF resp.kind # "ok" THEN Outcome("HTTPError", <<>>, reqs)
            ELSE After(reqs, _parse_response(resp.body, pad_year))

\* the end of get_details: result[0], or None for an empty result
FirstOrNone(r) ==
    IF r.exc # "ok" THEN r
    ELSE IF Len(r.value) > 0 THEN [r EXCEPT !.value = Some(r.value[1])]
    ELSE [r EXCEPT !.value = None]

\* ArxivClient.get_details with one retry of a failed request
ArxivClient_get_details_Retry(arxiv_id, resp, pad_year) ==
    LET normalized_id == normalize_arxiv_id(arxiv_id)
        reqs == <<[method |-> "GET", params |-> [id_list |-> normalized_id]]>>
    IN IF resp.kind # "ok" THEN Outcome("HTTPError", <<>>, reqs \o reqs)
       ELSE FirstOrNone(After(reqs, _parse_response(resp.body, pad_year)))

\* ArxivClient.get_details: the value is None or Some(paper)
ArxivClient_get_details(arxiv_id, resp, pad_year) ==
    LET normalized_id == normalize_arxiv_id(arxiv_id)
        reqs == <<[method |-> "GET", params |-> [id_list |-> normalized_id]]>>
    IN IF resp.kind # "ok" THEN Outcome("HTTPError", <<>>, reqs)
       ELSE FirstOrNone(After(reqs, _parse_response(resp.body, pad_year)))

\* QueryParts with the author clause appended before the title clause
QueryParts_AuthorFirst(a) ==
    (IF Truthy(a.author) THEN <<"au:\"" \o a.author[1] \o "\"">> ELSE <<>>)
    \o (IF Truthy(a.title) THEN <<"ti:\"" \o a.title[1] \o "\"">> ELSE <<>>)
    \o (IF Truthy(a.abstract) THEN <<"abs:\"" \o a.abstract[1] \o "\"">> ELSE <<>>)
    \o (IF Truthy(a.category) THEN <<"cat:" \o a.category[1]>> ELSE <<>>)
    \o (IF Truthy(a.all_fields) THEN <<"all:" \o a.all_fields[1]>> ELSE <<>>)
    \o (IF Truthy(a.start_date) /\ Truthy(a.end_date)
        THEN LET start_date_formatted == replace(a.start_date[1], "-", "") \o "0000"
                 end_date_formatted == replace(a.end_date[1], "-", "") \o "2359"
             IN <<"submittedDate:[" \o start_date_formatted \o " TO "
                    \o end_date_formatted \o "]">>
        ELSE <<>>)

\* the clauses search_keyword appends to query_parts, in its order
QueryParts(a) ==
    (IF Truthy(a.title) THEN <<"ti:\"" \o a.title[1] \o "\"">> ELSE <<>>)
    \o (IF Truthy(a.author) THEN <<"au:\"" \o a.author[1] \o "\"">> ELSE <<>>)
    \o (IF Truthy(a.abstract) THEN <<"abs:\"" \o a.abstract[1] \o "\"">> ELSE <<>>)
    \o (IF Truthy(a.category) THEN <<"cat:" \o a.category[1]>> ELSE <<>>)
    \o (IF Truthy(a.all_fields) THEN <<"all:" \o a.all_fields[1]>> ELSE <<>>)
    \o (IF Truthy(a.start_date) /\ Truthy(a.end_date)
        THEN LET start_date_formatted == replace(a.start_date[1], "-", "") \o "0000"
                 end_date_formatted == replace(a.end_date[1], "-", "") \o "2359"
             IN <<"submittedDate:[" \o start_date_formatted \o " TO "
                    \o end_date_formatted \o "]">>
        ELSE <<>>)

\* the tool server.search_keyword, after its initialisation guard
search_keyword(a, resp, pad_year) ==
    LET query_parts == QueryParts(a) IN
    IF query_parts = <<>> THEN Outcome("ValueError", <<>>, <<>>)
    ELSE LET query == join(" AND ", query_parts)
             start == (a.page - 1) * a.page_size
             max_results == a.page_size
         IN ArxivClient_search(query, max_results, start, a.sort_by, a.sort_order,
                               resp, pad_year)

----------------------------------------------------------------------------
(* semantic_search_client.py: semantic search *)

\* the characters of the model's strings that are compared, in code point order
ASCII == " #$%&()*+,-./0123456789:;<=>?@ABCDEFGHIJKLMNOPQRSTUVWXYZ[]^_abcdefghijklmnopqrstuvwxyz{|}~"

\* the rank of c in code point order
Ord(c) == CHOOSE k \in 1..Len(ASCII) : Char(ASCII, k) = c

\* s > t for Python strings: lexicographic by code point
RECURSIVE StrGreater(_, _)
StrGreater(s, t) ==
    IF s = "" THEN FALSE
    ELSE IF t = "" THEN TRUE
    ELSE IF Char(s, 1) # Char(t, 1) THEN Ord(Char(s, 1)) > Ord(Char(t, 1))
    ELSE StrGreater(SubSeq(s, 2, Len(s)), SubSeq(t, 2, Len(t)))

\* a JSON date value of a paper mapping
StrDate(s) == [t |-> "str", v |-> s]
NumDate(n) == [t |-> "num", v |-> n]

\* the body of the response: kind is "not_json" (response.json() raises),
\* "not_mapping" (valid JSON that has no .get), "no_papers" (a mapping without
\* the key papers), "papers_not_list" (papers is null) or "papers" (papers is
\* the list items of paper mappings)
JsonBody(kind, items) == [kind |-> kind, items |-> items]

\* the payload after the None values are filtered out
Payload(a) ==
    LET full == [query |-> Some(a.query), page |-> Some(a.page),
                 page_size |-> Some(a.page_size), search_by_paper |-> Some(FALSE),
                 use_rewrite |-> Some(a.use_rewrite), categories |-> a.categories,
                 start_time |-> a.start_time, end_time |-> a.end_time]
    IN [k \in {f \in DOMAIN full : full[f] # None} |-> full[k][1]]

\* the loop that converts a numeric published_date of a paper mapping
ConvertDate(paper, utc_offset, pad_year) ==
    IF paper.published_date # None /\ paper.published_date[1].t = "num"
    THEN [paper EXCEPT !.published_date =
              Some(strftime(fromtimestamp(paper.published_date[1].v, utc_offset), pad_year))]
    ELSE IF paper.published_date # None
    THEN [paper EXCEPT !.published_date = Some(paper.published_date[1].v)]
    ELSE paper

\* [ArxivPaper(**p) for p in paper_dicts], when no construction raises
RECURSIVE BuildPapers(_)
BuildPapers(paper_dicts) ==
    IF paper_dicts = <<>> THEN <<>>
    ELSE <<ArxivPaper(Head(paper_dicts))>> \o BuildPapers(Tail(paper_dicts))

\* the paper mapping constructs a record
Constructs(kw) == ~ValidationFails(kw)

\* SemanticSearchClient.search with a paper mapping that fails construction
\* skipped instead of raising
SemanticSearchClient_search_SkipInvalid(a, resp, utc_offset, pad_year) ==
    IF strip(a.query) = "" THEN Outcome("ValueError", <<>>, <<>>)
    ELSE IF a.page < 1 THEN Outcome("ValueError", <<>>, <<>>)
    ELSE IF a.page_size < 1 \/ a.page_size > MAX_PAGE_SIZE THEN Outcome("ValueError", <<>>, <<>>)
    ELSE IF Truthy(a.start_time) /\ Truthy(a.end_time)
            /\ StrGreater(a.start_time[1], a.end_time[1])
    THEN Outcome("ValueError", <<>>, <<>>)
    ELSE LET reqs == <<[method |-> "POST", params |-> Payload(a)]>> IN
         IF resp.kind # "ok" THEN Outcome("HTTPError", <<>>, reqs)
         ELSE IF resp.body.kind = "not_json" THEN Outcome("JSONDecodeError", <<>>, reqs)
         ELSE IF resp.body.kind = "not_mapping" THEN Outcome("AttributeError", <<>>, reqs)
         ELSE IF resp.body.kind = "papers_not_list" THEN Outcome("TypeError", <<>>, reqs)
         ELSE LET items == IF resp.body.kind = "no_papers" THEN <<>> ELSE resp.body.items
                  paper_dicts == [i \in 1..Len(items) |->
                                      ConvertDate(items[i], utc_offset, pad_year)]
              IN Outcome("ok", BuildPapers(SelectSeq(paper_dicts, Constructs)), reqs)

\* SemanticSearchClient.search
SemanticSearchClient_search(a, resp, utc_offset, pad_year) ==
    IF strip(a.query) = "" THEN Outcome("ValueError", <<>>, <<>>)
    ELSE IF a.page < 1 THEN Outcome("ValueError", <<>>, <<>>)
    ELSE IF a.page_size < 1 \/ a.page_size > MAX_PAGE_SIZE THEN Outcome("ValueError", <<>>, <<>>)
    ELSE IF Truthy(a.start_time) /\ Truthy(a.end_time)
            /\ StrGreater(a.start_time[1], a.end_time[1])
    THEN Outcome("ValueError", <<>>, <<>>)
    ELSE LET reqs == <<[method |-> "POST", params |-> Payload(a)]>> IN
         IF resp.kind # "ok" THEN Outcome("HTTPError", <<>>, reqs)
         ELSE IF resp.body.kind = "not_json" THEN Outcome("JSONDecodeError", <<>>, reqs)
         ELSE IF resp.body.kind = "not_mapping" THEN Outcome("AttributeError", <<>>, reqs)
         ELSE IF resp.body.kind = "papers_not_list" THEN Outcome("TypeError", <<>>, reqs)
         ELSE LET items == IF resp.body.kind = "no_papers" THEN <<>> ELSE resp.body.items
                  paper_dicts == [i \in 1..Len(items) |->
                                      ConvertDate(items[i], utc_offset, pad_year)]
              IN IF \E i \in 1..Len(paper_dicts) : ValidationFails(paper_dicts[i])
                 THEN Outcome("ValidationError", <<>>, reqs)
                 ELSE Outcome("ok", BuildPapers(paper_dicts), reqs)

----------------------------------------------------------------------------
(* bounds and inputs of the model *)

MaxVersion == 2
MaxPage == 2
MaxEntries == 3
MaxPapers == 2

\* the sequences over S of length at most n
BoundedSeq(S, n) == UNION {[1..k -> S] : k \in 0..n}

Schemes == {"", "http://", "https://", "ftp://"}
Hosts == {"", "arxiv.org/abs/", "arxiv.org/pdf/", "www.arxiv.org/abs/", "example.org/abs/"}
BareIds == {"2201.00001", "1.2"}
IdStems == BareIds \cup {"2201", ".5", "hep-th/9901001"}
VersionSuffixes == {"v" \o IntToStr(k) : k \in 1..MaxVersion}
Versions == {"", "v"} \cup VersionSuffixes
Trailers == {"", ".pdf", "\n", "/"}

\* identifier strings handed to normalize_arxiv_id
IdInputs ==
    {s \o h \o i \o v \o t :
        s \in Schemes, h \in Hosts, i \in IdStems, v \in Versions, t \in Trailers}

\* identifier strings handed to get_details
DetailIds == {"2301.00001", "2301.00001v2", "https://arxiv.org/abs/2301.00001v1",
              "not an id"}

\* major_category arguments
CategoryFilters ==
    {None} \cup {Some(f) : f \in {"", "cs", "CS", "Cs", "math", "Math", "math-ph",
                                  "physics", "stat", "q-bio", "quant-ph", "gr-qc",
                                  "zz", "q", "cs.", "cs.AI", "hep"}}

PageSizes == {0, 1, MAX_PAGE_SIZE, MAX_PAGE_SIZE + 1}
Pages == 0..MaxPage

KeywordArgs ==
    [page : Pages, page_size : PageSizes,
     sort_by : {"submittedDate"}, sort_order : {"descending"},
     title : {None, Some(""), Some("a")},
     author : {None, Some("Feynman")},
     abstract : {None, Some("quantum computing")},
     category : {None, Some("cs.AI")},
     start_date : {None, Some(""), Some("2023-01-01"), Some("2023/01/01")},
     end_date : {None, Some("2023-01-31"), Some("soon")},
     all_fields : {None, Some("transformers")}]

SemanticArgs ==
    [query : {"", "  ", "graph neural networks"},
     page : Pages, page_size : PageSizes,
     use_rewrite : BOOLEAN,
     categories : {None, Some(<<"cs.AI">>)},
     start_time : {None, Some(""), Some("2023-01-01"), Some("2023-02-01")},
     end_time : {None, Some(""), Some("2023-01-15")}]

\* entries of the XML response
CompleteEntry1 ==
    Entry(Some("http://arxiv.org/abs/2301.00001v1"), Some("  Title one\n"),
          Some(" An abstract. "), Some("2023-01-05T10:20:30Z"),
          <<Some("A. Author"), Some("B. Author")>>,
          <<Some("cs.AI"), Some("cs.LG")>>, Some("5 pages"))
CompleteEntry2 ==
    Entry(Some("http://arxiv.org/abs/hep-th/9901001v2"), Some("Title two"),
          Some("Second."), Some("1999-01-04T00:00:00Z"),
          <<None, Some("C. Author")>>, <<None, Some("hep-th")>>, None)

CoreEntries ==
    {CompleteEntry1, CompleteEntry2,
     [CompleteEntry1 EXCEPT !.authors = <<>>],
     [CompleteEntry1 EXCEPT !.title = Some("  ")],
     [CompleteEntry1 EXCEPT !.published = Some("2023-01-05")],
     [CompleteEntry2 EXCEPT !.id = None]}

EdgeEntries ==
    {[CompleteEntry1 EXCEPT !.title = None],
     [CompleteEntry1 EXCEPT !.summary = None],
     [CompleteEntry1 EXCEPT !.summary = Some("\n")],
     [CompleteEntry1 EXCEPT !.published = None],
     [CompleteEntry1 EXCEPT !.authors = <<None>>],
     [CompleteEntry1 EXCEPT !.categories = <<>>],
     [CompleteEntry1 EXCEPT !.categories = <<None>>],
     [CompleteEntry1 EXCEPT !.categories = <<Some("")>>],
     [CompleteEntry1 EXCEPT !.id = Some("http://arxiv.org/abs/")],
     [CompleteEntry1 EXCEPT !.id = Some("http://arxiv.org/abs/v1")],
     [CompleteEntry1 EXCEPT !.published = Some("2023-1-5T1:2:3Z")],
     [CompleteEntry1 EXCEPT !.published = Some("0999-12-31T23:59:59Z")],
     [CompleteEntry1 EXCEPT !.published = Some("2023-02-30T00:00:00Z")]}

TotalResultsTexts == {None, Some("2"), Some("many")}

\* response texts handed to _parse_response
Docs ==
    {Doc(TRUE, t, es) : t \in TotalResultsTexts,
                        es \in BoundedSeq(CoreEntries, MaxEntries)
                               \cup {<<e>> : e \in EdgeEntries}}
    \cup {Doc(FALSE, None, <<>>)}

\* HTTP responses to the GET of search_keyword and get_details
ArxivResponses ==
    {HttpError("transport_error"), HttpError("status_error"),
     HttpOk(Doc(FALSE, None, <<>>)),
     HttpOk(Doc(TRUE, Some("0"), <<>>)),
     HttpOk(Doc(TRUE, None, <<CompleteEntry1>>)),
     HttpOk(Doc(TRUE, Some("3"),
                <<[CompleteEntry1 EXCEPT !.title = Some("  ")], CompleteEntry2,
                  [CompleteEntry1 EXCEPT !.authors = <<>>]>>)),
     HttpOk(Doc(TRUE, Some("1"), <<[CompleteEntry1 EXCEPT !.id = Some("http://arxiv.org/abs/")]>>)),
     HttpOk(Doc(TRUE, Some("2"),
                <<[CompleteEntry1 EXCEPT !.published = Some("2023-1-5T1:2:3Z")],
                  [CompleteEntry2 EXCEPT !.published = Some("0999-12-31T23:59:59Z")]>>))}

\* paper mappings of the semantic service's response
SemanticPaper1 ==
    PaperKwargs(Some("2301.00001"), Some("Title one"), Some(<<"A. Author">>),
                Some("An abstract."), Some(<<"cs.AI">>), Some(NumDate(1700000000)),
                None, Some("https://example.org/2301.00001.pdf"))
SemanticPaper2 ==
    PaperKwargs(Some("2302.00002"), Some("Title two"), Some(<<"B. Author", "C. Author">>),
                Some("Second."), Some(<<"cs.LG", "stat.ML">>), Some(StrDate("2023-02-01")),
                Some("accepted"), None)

SemanticPapers ==
    {SemanticPaper1, SemanticPaper2,
     [SemanticPaper1 EXCEPT !.published_date = Some(NumDate(0))],
     [SemanticPaper2 EXCEPT !.published_date = Some(StrDate("2023-02-01T00:00:00Z"))],
     [SemanticPaper2 EXCEPT !.published_date = None],
     [SemanticPaper2 EXCEPT !.title = None],
     [SemanticPaper2 EXCEPT !.authors = Some(<<>>)],
     [SemanticPaper2 EXCEPT !.arxiv_id = Some("")]}

SemanticResponses ==
    {HttpError("transport_error"), HttpError("status_error")}
    \cup {HttpOk(JsonBody(k, <<>>)) :
              k \in {"not_json", "not_mapping", "no_papers", "papers_not_list"}}
    \cup {HttpOk(JsonBody("papers", items)) : items \in BoundedSeq(SemanticPapers, MaxPapers)}

\* the calls of search_keyword: every argument combination with a failing and
\* a successful response, and typical arguments with every response
TypicalKeywordArgs ==
    {a \in KeywordArgs :
        /\ a.page = 1 /\ a.page_size = MAX_PAGE_SIZE
        /\ a.title = Some("a") /\ a.author = None /\ a.abstract = None
        /\ a.category = Some("cs.AI") /\ a.all_fields = None
        /\ a.start_date = Some("2023-01-01") /\ a.end_date = Some("2023-01-31")}

KeywordCalls ==
    (KeywordArgs \X {HttpError("status_error"), HttpOk(Doc(TRUE, Some("0"), <<>>))})
    \cup (TypicalKeywordArgs \X ArxivResponses)

\* the calls of search_semantic, likewise
TypicalSemanticArgs ==
    {a \in SemanticArgs :
        /\ a.query = "graph neural networks" /\ a.page = 1 /\ a.page_size = MAX_PAGE_SIZE
        /\ ~a.use_rewrite /\ a.categories = None
        /\ a.start_time = Some("2023-01-01") /\ a.end_time = None}

SemanticCalls ==
    (SemanticArgs \X {HttpError("status_error"), HttpOk(JsonBody("papers", <<SemanticPaper1>>))})
    \cup (TypicalSemanticArgs \X SemanticResponses)

\* the server's offset from UTC, in seconds
UtcOffsets == {0 - 28800, 0, 28800}

\* keyword arguments of a direct construction of a paper record
ConstructorKwargs ==
    {PaperKwargs(id, title, authors, abstract, categories, published, comment, pdf_url) :
        id \in {None, Some(""), Some("2301.00001")},
        title \in {None, Some("Title")},
        authors \in {None, Some(<<>>), Some(<<"A. Author">>)},
        abstract \in {Some("An abstract.")},
        categories \in {None, Some(<<"cs.AI">>)},
        published \in {None, Some("2023-01-05")},
        comment \in {None, Some("5 pages")},
        pdf_url \in {None, Some(""), Some("https://example.org/p.pdf")}}

----------------------------------------------------------------------------
(* the server: lifecycle and tools *)

NoResponse == [kind |-> "none", body |-> <<>>]

Init ==
    /\ pc = "init"
    /\ arxiv_client = "None"
    /\ semantic_search_client = "None"
    /\ client_state = [arxiv |-> "none", semantic |-> "none"]
    /\ close_calls = [arxiv |-> 0, semantic |-> 0]
    /\ op = "none"
    /\ args = <<>>
    /\ response = NoResponse
    /\ outcome = "none"
    /\ result = <<>>
    /\ requests = <<>>

\* what may raise in startup: nothing, or the constructor of either client
StartupRaises == {"nothing", "ArxivClient", "SemanticSearchClient"}

\* server.startup, called first by main, outside its try: when a constructor
\* raises, main ends with that exception and without a call of shutdown
startup ==
    /\ pc = "init"
    /\ op = "none"
    /\ \E raises \in StartupRaises :
           /\ arxiv_client' = IF raises = "ArxivClient" THEN "None" ELSE "client"
           /\ semantic_search_client' = IF raises = "nothing" THEN "client" ELSE "None"
           /\ client_state' =
                  [arxiv |-> IF raises = "ArxivClient" THEN "none" ELSE "open",
                   semantic |-> IF raises = "nothing" THEN "open" ELSE "none"]
           /\ pc' = IF raises = "nothing" THEN "serving" ELSE "done"
    /\ UNCHANGED <<close_calls, op, args, response, outcome, result, requests>>

\* what may raise in shutdown: nothing, or the close of either client
ShutdownRaises == {"nothing", "arxiv_client.close", "semantic_search_client.close"}

\* the state of an httpx client after aclose(): closed when aclose returns,
\* closed or still open when it raises
AfterClose(raised) == IF raised THEN {"open", "closed"} ELSE {"closed"}

\* server.shutdown, called by the finally of main once mcp.run has returned
\* or raised: a close that raises ends shutdown at that line
shutdown ==
    /\ pc = "serving"
    /\ op = "none"
    /\ \E raises \in ShutdownRaises :
           IF raises = "arxiv_client.close"
           THEN /\ \E st \in AfterClose(TRUE) :
                       client_state' = [client_state EXCEPT !.arxiv = st]
                /\ close_calls' = [close_calls EXCEPT !.arxiv = @ + 1]
                /\ UNCHANGED <<arxiv_client, semantic_search_client>>
           ELSE /\ \E st \in AfterClose(raises = "semantic_search_client.close") :
                       client_state' = [arxiv |-> "closed", semantic |-> st]
                /\ close_calls' = [arxiv |-> close_calls.arxiv + 1,
                                   semantic |-> close_calls.semantic + 1]
                /\ arxiv_client' = "None"
                /\ semantic_search_client' =
                       IF raises = "nothing" THEN "None" ELSE semantic_search_client
    /\ pc' = "done"
    /\ UNCHANGED <<op, args, response, outcome, result, requests>>

\* the record of a call o(a): r is what came of it and resp the response to
\* its request, if it issued one
Call(o, a, r, resp) ==
    /\ op' = o
    /\ args' = a
    /\ response' = IF r.requests = <<>> THEN NoResponse ELSE resp
    /\ outcome' = r.exc
    /\ result' = r.value
    /\ requests' = r.requests
    /\ UNCHANGED <<pc, arxiv_client, semantic_search_client, client_state, close_calls>>

NotInitialized == Outcome("RuntimeError", <<>>, <<>>)

\* httpx refuses to send on a client that has been closed: RuntimeError
\* ("Cannot send a request, as the client has been closed."), nothing is sent
ClientClosed == Outcome("RuntimeError", <<>>, <<>>)

\* a direct call of the static method ArxivClient.normalize_arxiv_id
NormalizeArxivId ==
    /\ op = "none"
    /\ \E x \in IdInputs :
           Call("normalize_arxiv_id", x, Outcome("ok", normalize_arxiv_id(x), <<>>), NoResponse)

\* a direct construction ArxivPaper(**kw)
ConstructPaper ==
    /\ op = "none"
    /\ \E kw \in ConstructorKwargs :
           Call("ArxivPaper", kw,
                IF ValidationFails(kw) THEN Outcome("ValidationError", <<>>, <<>>)
                ELSE Outcome("ok", ArxivPaper(kw), <<>>),
                NoResponse)

\* a direct call of ArxivClient._parse_response on a response text
ParseResponse ==
    /\ op = "none"
    /\ \E doc \in Docs, pad_year \in BOOLEAN :
           Call("_parse_response", doc, _parse_response(doc, pad_year), NoResponse)

\* the tool server.get_categories
GetCategories ==
    /\ op = "none"
    /\ \E f \in CategoryFilters :
           IF arxiv_client = "None"
           THEN Call("get_categories", f, NotInitialized, NoResponse)
           ELSE Call("get_categories", f, Outcome("ok", get_categories(f), <<>>), NoResponse)

\* the tool server.search_keyword; a call that is refused before its request
\* receives no response
SearchKeyword ==
    /\ op = "none"
    /\ \E c \in KeywordCalls :
           IF arxiv_client = "None"
           THEN Call("search_keyword", c[1], NotInitialized, NoResponse)
           ELSE LET refused == search_keyword(c[1], NoResponse, TRUE) IN
                IF refused.requests = <<>>
                THEN Call("search_keyword", c[1], refused, NoResponse)
                ELSE IF client_state.arxiv = "closed"
                THEN Call("search_keyword", c[1], ClientClosed, NoResponse)
                ELSE \E pad_year \in BOOLEAN :
                         Call("search_keyword", c[1],
                              search_keyword(c[1], c[2], pad_year), c[2])

\* the tool server.get_details
GetDetails ==
    /\ op = "none"
    /\ \E id \in DetailIds :
           IF arxiv_client = "None"
           THEN Call("get_details", id, NotInitialized, NoResponse)
           ELSE IF client_state.arxiv = "closed"
           THEN Call("get_details", id, ClientClosed, NoResponse)
           ELSE \E resp \in ArxivResponses, pad_year \in BOOLEAN :
                    Call("get_details", id,
                         ArxivClient_get_details(id, resp, pad_year), resp)

\* the tool server.search_semantic; a call that is refused before its request
\* receives no response
SearchSemantic ==
    /\ op = "none"
    /\ \E c \in SemanticCalls :
           IF semantic_search_client = "None"
           THEN Call("search_semantic", c[1], NotInitialized, NoResponse)
           ELSE LET refused == SemanticSearchClient_search(c[1], NoResponse, 0, TRUE) IN
                IF refused.requests = <<>>
                THEN Call("search_semantic", c[1], refused, NoResponse)
                ELSE IF client_state.semantic = "closed"
                THEN Call("search_semantic", c[1], ClientClosed, NoResponse)
                ELSE \E utc_offset \in UtcOffsets, pad_year \in BOOLEAN :
                         Call("search_semantic", c[1],
                              SemanticSearchClient_search(c[1], c[2], utc_offset, pad_year),
                              c[2])

\* the caller takes the outcome of the recorded call
Return ==
    /\ op # "none"
    /\ op' = "none"
    /\ args' = <<>>
    /\ response' = NoResponse
    /\ outcome' = "none"
    /\ result' = <<>>
    /\ requests' = <<>>
    /\ UNCHANGED <<pc, arxiv_client, semantic_search_client, client_state, close_calls>>

Next ==
    \/ startup
    \/ shutdown
    \/ NormalizeArxivId
    \/ ConstructPaper
    \/ ParseResponse
    \/ GetCategories
    \/ SearchKeyword
    \/ GetDetails
    \/ SearchSemantic
    \/ Return

Spec == Init /\ [][Next]_vars

----------------------------------------------------------------------------
(* properties *)

\* the spellings of the bare identifier b that the server accepts: bare,
\* versioned, abstract-page URL and PDF URL (with or without ".pdf"), each URL
\* with or without a version
AcceptedSpellings(b) ==
    LET vs == {""} \cup VersionSuffixes
        http == {"http://", "https://"}
    IN {b \o v : v \in vs}
       \cup {s \o "arxiv.org/abs/" \o b \o v : s \in http, v \in vs}
       \cup {s \o "arxiv.org/pdf/" \o b \o v \o t : s \in http, v \in vs, t \in {"", ".pdf"}}

\* C1: normalize_arxiv_id maps every accepted spelling of a bare identifier
\* <digits>.<digits> to exactly that bare identifier.
C1_AcceptedSpellingsNormalize ==
    op = "normalize_arxiv_id" =>
        \A b \in BareIds : args \in AcceptedSpellings(b) => result = b

\* C1 witness: a versioned PDF URL has been normalized to its bare identifier.
C1_Witness ==
    /\ op = "normalize_arxiv_id"
    /\ args = "https://arxiv.org/pdf/2201.00001v2.pdf"
    /\ result = "2201.00001"

\* s has a match of the URL pattern somewhere
HasUrlMatch(s) == \E i \in 1..Len(s) : UrlMatchAt(s, i)

\* s is exactly <digits>.<digits>v<digits>
IsVersionedId(s) ==
    LET a == DigitRunEnd(s, 1)
        b == DigitRunEnd(s, a + 1)
        c == DigitRunEnd(s, b + 1)
    IN /\ a > 1 /\ a <= Len(s) /\ Char(s, a) = "."
       /\ b > a + 1 /\ b <= Len(s) /\ Char(s, b) = "v"
       /\ c > b + 1 /\ c = Len(s) + 1

\* C2: normalize_arxiv_id never fails, is idempotent, and returns unchanged
\* every input that matches neither the URL pattern nor the full pattern
\* <digits>.<digits>v<digits>.
C2_TotalIdempotentUnchanged ==
    op = "normalize_arxiv_id" =>
        /\ outcome = "ok"
        /\ normalize_arxiv_id(result) = result
        /\ (~HasUrlMatch(args) /\ ~IsVersionedId(args)) => result = args

\* the major category of a code: the part before its first "."
MajorOf(code) == SplitFirst(code, ".")

\* C3: get_categories with a non-empty filter returns exactly the entries
\* whose major category equals the filter, compared case-insensitively.
C3_ExactlyMajorCategory ==
    (op = "get_categories" /\ outcome = "ok" /\ Truthy(args)) =>
        result = {e \in ARXIV_CATEGORIES : lower(MajorOf(e[1])) = lower(args[1])}

\* none of the search criteria title, author, abstract, category, all_fields
\* is supplied non-empty
NoCriteria(a) ==
    /\ ~Truthy(a.title) /\ ~Truthy(a.author) /\ ~Truthy(a.abstract)
    /\ ~Truthy(a.category) /\ ~Truthy(a.all_fields)

\* a call of search_keyword that passed the initialisation guard
KeywordCall == op = "search_keyword" /\ outcome # "RuntimeError"

\* C4: search_keyword without any search criterion fails with a validation
\* error and issues no request, whatever the dates and the paging are.
C4_NoCriteriaRejected ==
    (KeywordCall /\ NoCriteria(args)) => (outcome = "ValueError" /\ requests = <<>>)

\* s without its "-" characters
RECURSIVE WithoutDashes(_)
WithoutDashes(s) ==
    IF s = "" THEN ""
    ELSE (IF Char(s, 1) = "-" THEN "" ELSE Char(s, 1)) \o WithoutDashes(SubSeq(s, 2, Len(s)))

\* the clause of each field in the fixed field order, "" for a field without
\* a clause
ClauseSlots(a) ==
    <<IF Truthy(a.title) THEN "ti:\"" \o a.title[1] \o "\"" ELSE "",
      IF Truthy(a.author) THEN "au:\"" \o a.author[1] \o "\"" ELSE "",
      IF Truthy(a.abstract) THEN "abs:\"" \o a.abstract[1] \o "\"" ELSE "",
      IF Truthy(a.category) THEN "cat:" \o a.category[1] ELSE "",
      IF Truthy(a.all_fields) THEN "all:" \o a.all_fields[1] ELSE "",
      IF Truthy(a.start_date) /\ Truthy(a.end_date)
      THEN "submittedDate:[" \o WithoutDashes(a.start_date[1]) \o "0000 TO "
               \o WithoutDashes(a.end_date[1]) \o "2359]"
      ELSE "">>

NonEmpty(s) == s # ""

\* C5: with at least one keyword field non-empty, the query string sent is the
\* clauses of the non-empty fields in the order title, author, abstract,
\* category, all_fields, date range, joined by " AND "; the date-range clause
\* is there exactly when both dates are non-empty.
C5_QueryIsClausesInFixedOrder ==
    (KeywordCall /\ ~NoCriteria(args) /\ requests # <<>>) =>
        /\ Len(requests) = 1
        /\ requests[1].params.search_query
               = join(" AND ", SelectSeq(ClauseSlots(args), NonEmpty))

\* C5 witness: a request was sent for a title, an author, a category and a
\* date range.
C5_Witness ==
    /\ KeywordCall
    /\ args.title = Some("a") /\ args.author = Some("Feynman") /\ args.abstract = None
    /\ args.category = Some("cs.AI") /\ args.all_fields = None
    /\ args.start_date = Some("2023-01-01") /\ args.end_date = Some("2023-01-31")
    /\ requests # <<>>
    /\ requests[1].params.search_query
           = "ti:\"a\" AND au:\"Feynman\" AND cat:cs.AI AND submittedDate:[202301010000 TO 202301312359]"

\* s has the shape YYYY-MM-DD
IsYMD(s) ==
    /\ Len(s) = 10
    /\ \A i \in {1, 2, 3, 4, 6, 7, 9, 10} : IsDigit(Char(s, i))
    /\ Char(s, 5) = "-" /\ Char(s, 8) = "-"

\* C6: when both dates are supplied and one of them is not a well-formed
\* YYYY-MM-DD string, search_keyword fails with a validation error and sends
\* no query.
C6_MalformedDateRejected ==
    (/\ KeywordCall
     /\ Truthy(args.start_date) /\ Truthy(args.end_date)
     /\ ~IsYMD(args.start_date[1]) \/ ~IsYMD(args.end_date[1]))
        => (outcome = "ValueError" /\ requests = <<>>)

\* the paper records that the recorded call of a search or lookup tool returned
ReturnedPapers ==
    IF outcome = "ok" /\ op \in {"search_keyword", "get_details", "search_semantic"}
    THEN {result[i] : i \in 1..Len(result)}
    ELSE {}

PaperRecordInvariant(p) ==
    /\ p.arxiv_id # "" /\ p.title # "" /\ p.abstract # "" /\ p.published_date # ""
    /\ Len(p.authors) >= 1 /\ Len(p.categories) >= 1

\* C7: every paper record returned by keyword search, single-paper lookup or
\* semantic search has non-empty id, title, abstract and published date, at
\* least one author and at least one category.
C7_ReturnedRecordsValid ==
    \A p \in ReturnedPapers : PaperRecordInvariant(p)

\* C8: every paper record returned by either backend has its published date
\* in the form YYYY-MM-DD.
C8_ReturnedDatesAreYMD ==
    \A p \in ReturnedPapers : IsYMD(p.published_date)

\* the entry has non-empty id, title, summary and published text, an author
\* with a non-empty name and a category term
IsCompleteEntry(e) ==
    /\ Truthy(e.id) /\ Truthy(e.title) /\ Truthy(e.summary) /\ Truthy(e.published)
    /\ \E i \in 1..Len(e.authors) : Truthy(e.authors[i])
    /\ \E i \in 1..Len(e.categories) : e.categories[i] # None

\* s has the strict form YYYY-MM-DDTHH:MM:SSZ and names a real date and time
IsStrictTimestamp(s) ==
    /\ Len(s) = 20
    /\ IsYMD(SubSeq(s, 1, 10))
    /\ Char(s, 11) = "T" /\ Char(s, 14) = ":" /\ Char(s, 17) = ":" /\ Char(s, 20) = "Z"
    /\ \A i \in {12, 13, 15, 16, 18, 19} : IsDigit(Char(s, i))
    /\ strptime(s).ok

\* C9: for a well-formed document whose entries carry well-formed timestamps,
\* _parse_response does not fail and returns, in document order, exactly one
\* record for each complete entry.
C9_OneRecordPerCompleteEntry ==
    (/\ op = "_parse_response"
     /\ args.well_formed
     /\ \A i \in 1..Len(args.entries) :
            Truthy(args.entries[i].published)
                => IsStrictTimestamp(args.entries[i].published[1]))
        => /\ outcome = "ok"
           /\ LET complete == SelectSeq(args.entries, IsCompleteEntry) IN
              /\ Len(result) = Len(complete)
              /\ \A i \in 1..Len(complete) :
                     /\ result[i].authors = Unwrap(SelectSeq(complete[i].authors, Truthy))
                     /\ result[i].comment = complete[i].comment

\* C10: every constructed paper record has a pdf_url: the supplied one when
\* that is non-empty, else "https://arxiv.org/pdf/" followed by the id.
C10_PdfUrlAlwaysSet ==
    (op = "ArxivPaper" /\ outcome = "ok") =>
        /\ result.pdf_url # None
        /\ Truthy(args.pdf_url) => result.pdf_url = args.pdf_url
        /\ ~Truthy(args.pdf_url)
               => result.pdf_url = Some("https://arxiv.org/pdf/" \o result.arxiv_id)

\* a validation error: the call is refused before any request is issued
ValidationError == outcome = "ValueError" /\ requests = <<>>

SemanticCall == op = "search_semantic" /\ outcome # "RuntimeError"

\* s is empty or consists of whitespace only
IsBlank(s) == \A i \in 1..Len(s) : Char(s, i) \in WHITESPACE

\* C12: search_semantic fails with a validation error, before any request,
\* exactly when the query is blank, or page < 1, or page_size is outside 1..15,
\* or start_time and end_time are both present and start_time is
\* lexicographically greater than end_time; otherwise it issues the POST with
\* page and page_size as given.
C12_SemanticValidated ==
    SemanticCall =>
        IF \/ IsBlank(args.query)
           \/ args.page < 1
           \/ args.page_size < 1 \/ args.page_size > 15
           \/ /\ args.start_time # None /\ args.end_time # None
              /\ StrGreater(args.start_time[1], args.end_time[1])
        THEN ValidationError
        ELSE /\ ~ValidationError
             /\ Len(requests) = 1
             /\ requests[1].method = "POST"
             /\ requests[1].params.page = args.page
             /\ requests[1].params.page_size = args.page_size

\* some complete entry of es has a published timestamp that is not in the
\* strict form
HasMalformedTimestamp(es) ==
    \E i \in 1..Len(es) :
        IsCompleteEntry(es[i]) /\ ~IsStrictTimestamp(es[i].published[1])

\* C13 as stated: an entry whose published timestamp is not in the strict form
\* makes the whole parse call fail, and no records are returned.
C13_MalformedTimestampFatal ==
    (op = "_parse_response" /\ HasMalformedTimestamp(args.entries))
        => (outcome # "ok" /\ result = <<>>)

\* the entry is complete and its published timestamp is accepted
Kept(e) == IsCompleteEntry(e) /\ strptime(e.published[1]).ok

\* C13 as amended: an entry whose published timestamp is not in the strict
\* form never makes the parse call fail. The call fails exactly as it would
\* for the document without its entries; when it returns, an entry whose
\* timestamp is rejected is skipped and every complete entry whose timestamp
\* is accepted has its record, in document order.
C13_MalformedTimestampSkipped ==
    (op = "_parse_response" /\ HasMalformedTimestamp(args.entries)) =>
        /\ outcome = _parse_response(Doc(args.well_formed, args.totalResults, <<>>), TRUE).exc
        /\ outcome = "ok" =>
               LET kept == SelectSeq(args.entries, Kept) IN
               /\ Len(result) = Len(kept)
               /\ \A i \in 1..Len(kept) :
                      /\ result[i].authors = Unwrap(SelectSeq(kept[i].authors, Truthy))
                      /\ result[i].comment = kept[i].comment

\* C13 witness: a document with a date-only timestamp in one complete entry
\* and a strict timestamp in another is parsed into one record.
C13_Witness ==
    /\ op = "_parse_response" /\ outcome = "ok"
    /\ Len(args.entries) = 2
    /\ args.entries[1] = [CompleteEntry1 EXCEPT !.published = Some("2023-01-05")]
    /\ args.entries[2] = CompleteEntry2
    /\ Len(result) = 1
    /\ result[1].arxiv_id = "9901001"

\* C14: the total-result count is informational only: for a well-formed
\* document _parse_response does not fail, whatever the total-result element
\* holds and whether it is there at all, and it returns the records that its
\* entries alone determine.
C14_TotalResultsInformational ==
    (op = "_parse_response" /\ args.well_formed) =>
        /\ outcome = "ok"
        /\ \E pad_year \in BOOLEAN : result = ParseEntries(args.entries, pad_year)

\* the response to the POST of the recorded search_semantic call has arrived
SemanticResponded == SemanticCall /\ requests # <<>> /\ response.kind = "ok"

\* some paper mapping of the list lacks a required field
SomePaperInvalid(items) == \E i \in 1..Len(items) : ValidationFails(items[i])

\* C15 as stated: when the body is not a mapping holding a papers list, or a
\* paper mapping of the list fails record construction, the semantic search
\* call fails with an error and returns no records.
C15_NoPartialResults ==
    (/\ SemanticResponded
     /\ \/ response.body.kind # "papers"
        \/ SomePaperInvalid(response.body.items))
        => (outcome # "ok" /\ result = <<>>)

\* C15 as amended: when the body is not JSON, is not a mapping, or holds a
\* null papers value, or a paper mapping of the list fails record
\* construction, the call fails with an error and returns no records; a
\* mapping without the key papers is read as an empty list and the call
\* returns no records without an error; in every other case the call returns
\* one record per paper mapping.
C15_NoPartialResultsAmended ==
    SemanticResponded =>
        IF response.body.kind = "no_papers"
        THEN outcome = "ok" /\ result = <<>>
        ELSE IF response.body.kind # "papers" \/ SomePaperInvalid(response.body.items)
        THEN outcome # "ok" /\ result = <<>>
        ELSE outcome = "ok" /\ Len(result) = Len(response.body.items)

\* C15 witness: a valid paper mapping followed by one without a title makes
\* the call fail without records.
C15_Witness ==
    /\ SemanticResponded
    /\ response.body.kind = "papers"
    /\ response.body.items = <<SemanticPaper1, [SemanticPaper2 EXCEPT !.title = None]>>
    /\ outcome = "ValidationError"
    /\ result = <<>>

\* the recorded call is of a tool that sends its request on the handle h
UsesHandle(h) ==
    IF h = "arxiv" THEN op \in {"search_keyword", "get_details"}
    ELSE op = "search_semantic"

\* C16: in every run, with or without a raising constructor, tool call or
\* close, each handle that was created is closed exactly once: none is open
\* when main has ended, none receives a second close, and a tool call sends
\* no request on a handle that is not yet created or already closed, but
\* fails.
C16_HandlesClosedExactlyOnce ==
    \A h \in {"arxiv", "semantic"} :
        /\ close_calls[h] <= 1
        /\ pc = "done" => client_state[h] # "open"
        /\ (UsesHandle(h) /\ client_state[h] # "open")
               => (requests = <<>> /\ outcome # "ok")

\* a call of search_keyword, get_details or search_semantic that reached its
\* client with the client's handle open
ClientCall ==
    /\ op \in {"search_keyword", "get_details", "search_semantic"}
    /\ outcome # "RuntimeError"

\* the request of the recorded call failed: no response, or a non-success
\* status
RequestFailed == response.kind \in {"transport_error", "status_error"}

\* C17: a keyword search, semantic search or single-paper lookup issues no
\* request when it fails validation and exactly one request otherwise; when
\* that request fails, the transport error is raised to the caller, nothing
\* is sent again and no records are returned.
C17_AtMostOneRequest ==
    ClientCall =>
        /\ IF ValidationError THEN requests = <<>> ELSE Len(requests) = 1
        /\ RequestFailed =>
               (outcome = "HTTPError" /\ Len(requests) = 1 /\ result = <<>>)

\* C17 witness: the one request of a single-paper lookup fails in the
\* transport and the lookup raises the transport error.
C17_Witness ==
    /\ op = "get_details"
    /\ response.kind = "transport_error"
    /\ outcome = "HTTPError"
    /\ Len(requests) = 1
    /\ result = <<>>

====
